---- MODULE Spec2Model ----
(***************************************************************************)
(* Skill extraction pipeline of awesome-claude-skills:                     *)
(*   scripts/fetching/parsers.py   SkillParser (parse_from_file,           *)
(*                                 _parse_metadata)                        *)
(*   scripts/utils/fetcher.py      Fetcher (clone_and_scan_repository,     *)
(*                                 _parse_skill_md, fetch_json)            *)
(*   scripts/fetching/repository.py GitRepository (clone)                  *)
(*                                                                         *)
(* Text is modelled as sequences of tokens: every punctuation character    *)
(* and every blank is a token of its own, and a maximal run of word        *)
(* characters is one token.  A line is a sequence of tokens; a file is a   *)
(* sequence of lines (the result of content.split('\n')).  Paths are       *)
(* sequences of path components.                                           *)
(***************************************************************************)
EXTENDS Integers, Sequences, FiniteSets, TLC

VARIABLES
    call,      \* the operation called last: "none" before the first call
    input,     \* its arguments
    result,    \* the value it returned
    self,      \* the Fetcher instance in use: its cache_ttl and its cache
    now        \* time.time()

vars == <<call, input, result, self, now>>

\* the variables of the Fetcher's HTTP cache
fetcher_vars == <<self, now>>

-----------------------------------------------------------------------------
(* Bounds *)

MaxFiles == 2
MaxLines == 2
MaxTime == 3
MaxTtl == 2

-----------------------------------------------------------------------------
(* Tokens and string primitives *)

SP == " "
Delim == "---"

Punct == {" ", ":", "#", "[", "]", ",", "*", "\"", "'", "/", ";", "-", "!", "."}

IsWord(t) == t \notin Punct /\ t # Delim

\* str.lower() on one token (only the tokens of the vocabulary that have
\* upper-case letters change)
Lower(t) ==
    CASE t = "Category" -> "category"
      [] t = "Categories" -> "categories"
      [] t = "Tags" -> "tags"
      [] t = "Tools" -> "tools"
      [] t = "Alpha" -> "alpha"
      [] t = "Beta" -> "beta"
      [] t = "Desc" -> "desc"
      [] OTHER -> t

\* category[0].upper() + category[1:] on the first token
Upper1(t) ==
    CASE t = "tools" -> "Tools"
      [] t = "category" -> "Category"
      [] t = "alpha" -> "Alpha"
      [] t = "beta" -> "Beta"
      [] t = "x" -> "X"
      [] t = "y" -> "Y"
      [] t = "dev" -> "Dev"
      [] OTHER -> t

RECURSIVE Str(_)
\* the Python string a token sequence stands for
Str(l) == IF l = <<>> THEN "" ELSE l[1] \o Str(Tail(l))

RECURSIVE LStrip(_, _)
LStrip(l, cs) == IF l # <<>> /\ l[1] \in cs THEN LStrip(Tail(l), cs) ELSE l

RECURSIVE RStrip(_, _)
RStrip(l, cs) ==
    IF l # <<>> /\ l[Len(l)] \in cs THEN RStrip(SubSeq(l, 1, Len(l) - 1), cs) ELSE l

\* str.strip(chars)
StripChars(l, cs) == RStrip(LStrip(l, cs), cs)

\* str.strip()
Strip(l) == StripChars(l, {SP})

StartsWith(l, p) == Len(l) >= Len(p) /\ SubSeq(l, 1, Len(p)) = p

Contains(l, t) == \E i \in 1..Len(l) : l[i] = t

\* index of the first occurrence of token t in l, 0 when absent
IndexOf(l, t) ==
    IF Contains(l, t) THEN CHOOSE i \in 1..Len(l) : l[i] = t /\ \A j \in 1..(i-1) : l[j] # t
    ELSE 0

\* l.split(t, 1): the part before the first t and the part after it
Before(l, t) == IF IndexOf(l, t) = 0 THEN l ELSE SubSeq(l, 1, IndexOf(l, t) - 1)
After(l, t) == IF IndexOf(l, t) = 0 THEN <<>> ELSE SubSeq(l, IndexOf(l, t) + 1, Len(l))

RECURSIVE SplitOn(_, _)
\* l.split(t): all the pieces
SplitOn(l, t) ==
    IF IndexOf(l, t) = 0 THEN <<l>> ELSE <<Before(l, t)>> \o SplitOn(After(l, t), t)

RECURSIVE JoinWith(_, _)
\* sep.join(ls) on token sequences
JoinWith(ls, sep) ==
    IF ls = <<>> THEN <<>>
    ELSE IF Len(ls) = 1 THEN ls[1]
    ELSE ls[1] \o sep \o JoinWith(Tail(ls), sep)

-----------------------------------------------------------------------------
(* Python values held by the metadata mapping *)

StrV(s) == [t |-> "str", s |-> s, q |-> <<>>]
NoneV == [t |-> "none", s |-> "", q |-> <<>>]
ListV(q) == [t |-> "list", s |-> "", q |-> q]

\* Python truthiness of a value
Truthy(v) ==
    CASE v.t = "str" -> v.s # ""
      [] v.t = "list" -> v.q # <<>>
      [] OTHER -> FALSE

MetaKeys == {"name", "description", "category", "tags"}

-----------------------------------------------------------------------------
(* yaml.safe_load, for the grammar the frontmatter blocks of the model use: *)
(* block mappings 'key: value' with plain, quoted or flow-sequence values,  *)
(* comment lines, blank lines, and a one-line plain scalar document.        *)

YErr == [err |-> TRUE, v |-> NoneV]
YOk(v) == [err |-> FALSE, v |-> v]

\* ':' followed by a blank, or ':' at the end: a mapping indicator
HasMapIndicator(v) ==
    \E i \in 1..Len(v) : v[i] = ":" /\ (i = Len(v) \/ v[i+1] = SP)

\* ' #' starts a comment inside a plain scalar
CommentAt(v) ==
    IF \E i \in 2..Len(v) : v[i] = "#" /\ v[i-1] = SP
    THEN CHOOSE i \in 2..Len(v) : v[i] = "#" /\ v[i-1] = SP
                                  /\ \A j \in 2..(i-1) : ~(v[j] = "#" /\ v[j-1] = SP)
    ELSE 0

DropComment(v) == IF CommentAt(v) = 0 THEN v ELSE Strip(SubSeq(v, 1, CommentAt(v) - 1))

QuoteChars == {"\"", "'"}

\* a quoted scalar: the same quote at both ends and none inside
YQuoted(v) ==
    IF Len(v) >= 2 /\ v[Len(v)] = v[1] /\ ~Contains(SubSeq(v, 2, Len(v) - 1), v[1])
    THEN YOk(StrV(Str(SubSeq(v, 2, Len(v) - 1))))
    ELSE YErr

RECURSIVE FlowItems(_, _, _, _)
\* the items of a flow sequence body: split at commas outside quotes
FlowItems(rest, cur, quote, acc) ==
    IF rest = <<>> THEN acc \o <<cur>>
    ELSE IF quote # "" THEN
        FlowItems(Tail(rest), cur \o <<rest[1]>>, IF rest[1] = quote THEN "" ELSE quote, acc)
    ELSE IF rest[1] \in QuoteChars /\ Strip(cur) = <<>> THEN
        FlowItems(Tail(rest), cur \o <<rest[1]>>, rest[1], acc)
    ELSE IF rest[1] = "," THEN FlowItems(Tail(rest), <<>>, "", acc \o <<cur>>)
    ELSE FlowItems(Tail(rest), cur \o <<rest[1]>>, "", acc)

\* one item of a flow sequence
YFlowItem(item) ==
    IF item = <<>> THEN YErr
    ELSE IF item[1] \in QuoteChars THEN YQuoted(item)
    ELSE IF Contains(item, "[") \/ Contains(item, "]") THEN YErr
    ELSE IF HasMapIndicator(item) THEN YOk(StrV(Str(<<"{">> \o item \o <<"}">>)))
    ELSE YOk(StrV(Str(item)))

\* the value of a flow sequence whose items are parsed
YFlowResult(items) ==
    IF \E i \in 1..Len(items) : items[i].err THEN YErr
    ELSE YOk(ListV([i \in 1..Len(items) |-> items[i].v.s]))

YFlowParse(raw) == YFlowResult([i \in 1..Len(raw) |-> YFlowItem(Strip(raw[i]))])

YFlowBody(body) ==
    IF Strip(body) = << >> THEN YOk(ListV(<< >>))
    ELSE YFlowParse(FlowItems(body, << >>, "", << >>))

\* a flow sequence '[a, b]'
YFlowSeq(v) ==
    IF Len(v) < 2 \/ v[Len(v)] # "]" THEN YErr ELSE YFlowBody(SubSeq(v, 2, Len(v) - 1))

\* a plain scalar, its comment dropped
YPlain(d) ==
    IF HasMapIndicator(d) THEN YErr
    ELSE IF d \in {<<"null">>, <<"~">>} THEN YOk(NoneV)
    ELSE YOk(StrV(Str(d)))

YStripped(v) ==
    IF v = << >> THEN YOk(NoneV)
    ELSE IF v[1] \in QuoteChars THEN YQuoted(v)
    ELSE IF v[1] = "[" THEN YFlowSeq(v)
    ELSE IF v[1] \in {"*", "]", ",", "#"} THEN YErr
    ELSE YPlain(DropComment(v))

\* the value part of a 'key: value' line
YValue(raw) == YStripped(Strip(raw))

YIsBlankOrComment(l) == Strip(l) = <<>> \/ Strip(l)[1] = "#"

\* 'key:' or 'key: value' at column 0
YIsEntry(l) ==
    /\ Len(l) >= 2
    /\ IsWord(l[1])
    /\ l[2] = ":"
    /\ (Len(l) = 2 \/ l[3] = SP)

YContentLines(lines) == SelectSeq(lines, LAMBDA l : ~YIsBlankOrComment(l))

YFail == [err |-> TRUE, isdict |-> FALSE, truthy |-> FALSE, m |-> << >>]
YNotDict(truthy) == [err |-> FALSE, isdict |-> FALSE, truthy |-> truthy, m |-> << >>]

\* index of the last entry of cl with key k
YLast(cl, k) ==
    CHOOSE i \in 1..Len(cl) : cl[i][1] = k /\ \A j \in (i+1)..Len(cl) : cl[j][1] # k

\* a block mapping: vals[i] is the parsed value of entry cl[i]
YMapping(cl, vals) ==
    IF \E i \in 1..Len(cl) : vals[i].err THEN YFail
    ELSE [err |-> FALSE, isdict |-> TRUE, truthy |-> TRUE,
          m |-> [k \in {cl[i][1] : i \in 1..Len(cl)} |-> vals[YLast(cl, k)].v]]

\* a document that is one plain scalar
YScalarDoc(v) == IF ~v.err /\ v.v.t = "str" THEN YNotDict(TRUE) ELSE YFail

YDocument(cl) ==
    IF cl = << >> THEN YNotDict(FALSE)
    ELSE IF \A i \in 1..Len(cl) : YIsEntry(cl[i])
    THEN YMapping(cl, [i \in 1..Len(cl) |-> YValue(SubSeq(cl[i], 3, Len(cl[i])))])
    ELSE IF Len(cl) = 1 THEN YScalarDoc(YValue(cl[1]))
    ELSE YFail

\* result of yaml.safe_load: err (a yaml.YAMLError was raised), isdict, and
\* the mapping m (last duplicate key wins)
yaml_safe_load(lines) == YDocument(YContentLines(lines))

-----------------------------------------------------------------------------
(* SkillParser._parse_metadata (parsers.py) *)

\* re.search(r'\w+\[[^\]]+\]', val)
HasNestedBracket(val) ==
    \E i \in 1..Len(val) :
        /\ IsWord(val[i])
        /\ i + 3 <= Len(val)
        /\ val[i+1] = "["
        /\ val[i+2] # "]"
        /\ \E j \in (i+3)..Len(val) : val[j] = "]"

RECURSIVE SplitDepth(_, _, _, _)
\* the bracket-depth loop over val[1:-1]
SplitDepth(rest, current_item, bracket_depth, items) ==
    IF rest = <<>> THEN
        IF Strip(current_item) # <<>> THEN items \o <<Strip(current_item)>> ELSE items
    ELSE IF rest[1] = "[" THEN
        SplitDepth(Tail(rest), current_item \o <<rest[1]>>, bracket_depth + 1, items)
    ELSE IF rest[1] = "]" THEN
        SplitDepth(Tail(rest), current_item \o <<rest[1]>>, bracket_depth - 1, items)
    ELSE IF rest[1] = "," /\ bracket_depth = 0 THEN
        SplitDepth(Tail(rest), <<>>, bracket_depth, items \o <<Strip(current_item)>>)
    ELSE SplitDepth(Tail(rest), current_item \o <<rest[1]>>, bracket_depth, items)

StartsQuoted(v) == v # <<>> /\ v[1] \in QuoteChars

QuoteItem(item) ==
    IF Contains(item, "[") /\ ~StartsQuoted(item) THEN <<"\"">> \o item \o <<"\"">> ELSE item

\* RequoteSeq with a slip: the sequence is split at every comma, whatever
\* the bracket depth
RequoteSeq_flat(val) ==
    LET pieces == SplitOn(SubSeq(val, 2, Len(val) - 1), ",")
        quoted_items == [i \in 1..Len(pieces) |-> QuoteItem(Strip(pieces[i]))]
    IN <<"[">> \o JoinWith(quoted_items, <<",", SP>>) \o <<"]">>

\* the rebuilt flow sequence: '[' + ', '.join(quoted_items) + ']'
RequoteSeq(val) ==
    LET items == SplitDepth(SubSeq(val, 2, Len(val) - 1), <<>>, 0, <<>>)
        quoted_items == [i \in 1..Len(items) |-> QuoteItem(items[i])]
    IN <<"[">> \o JoinWith(quoted_items, <<",", SP>>) \o <<"]">>

\* the repaired value of one 'key: value' line
FixVal(val) ==
    IF val # <<>> /\ val[1] = "[" /\ val[Len(val)] = "]" THEN
        IF HasNestedBracket(val) THEN RequoteSeq(val) ELSE val
    ELSE IF Contains(val, ":") /\ ~StartsQuoted(val) THEN <<"\"">> \o val \o <<"\"">>
    ELSE val

\* one iteration of the loop that builds fixed_lines
FixLine(line) ==
    IF Contains(line, ":") /\ ~(Strip(line) # <<>> /\ Strip(line)[1] = "#")
    THEN Before(line, ":") \o <<":", SP>> \o FixVal(Strip(After(line, ":")))
    ELSE line

FixLines(lines) == [i \in 1..Len(lines) |-> FixLine(lines[i])]

\* content.startswith("---")
StartsWithDelim(content) == content # <<>> /\ content[1] # <<>> /\ content[1][1] = Delim

\* index of the line holding the second '---', 0 when there is none
SecondDelim(content) ==
    IF \E i \in 2..Len(content) : Contains(content[i], Delim)
    THEN CHOOSE i \in 2..Len(content) :
             Contains(content[i], Delim) /\ \A j \in 2..(i-1) : ~Contains(content[j], Delim)
    ELSE 0

\* parts[1].split('\n') and parts[2].split('\n') of content.split("---", 2)
FrontmatterLines(content) ==
    <<Tail(content[1])>> \o SubSeq(content, 2, SecondDelim(content) - 1)
        \o <<Before(content[SecondDelim(content)], Delim)>>
RestLines(content) ==
    <<After(content[SecondDelim(content)], Delim)>>
        \o SubSeq(content, SecondDelim(content) + 1, Len(content))

\* the entries of the block that parse on their own
GoodEntries(lines) ==
    SelectSeq(lines, LAMBDA l : ~YIsEntry(l) \/ ~YValue(SubSeq(l, 3, Len(l))).err)

KeepGood(lines, r) == IF r.err THEN yaml_safe_load(GoodEntries(lines)) ELSE r

\* RetryRepaired with a slip: when the repaired block fails as well, the
\* entries that parse on their own are loaded instead of giving up
RetryRepaired_keepgood(fm, strict) ==
    IF strict.err THEN KeepGood(FixLines(fm), yaml_safe_load(FixLines(fm))) ELSE strict

\* lines 124-173: the retry on the repaired block when the strict parse
\* raised; err means the retry raised as well (the handler at line 179 then
\* leaves meta alone)
RetryRepaired(fm, strict) == IF strict.err THEN yaml_safe_load(FixLines(fm)) ELSE strict

\* lines 126-173 on their own: the repaired lines and the outcome of the
\* second yaml.safe_load
repair_pass(fm) ==
    [fixed_lines |-> FixLines(fm), frontmatter |-> yaml_safe_load(FixLines(fm))]

\* lines 122-173
LoadFrontmatter(fm) == RetryRepaired(fm, yaml_safe_load(fm))

\* dict.update
Update(meta, m) ==
    [k \in DOMAIN meta \cup DOMAIN m |-> IF k \in DOMAIN m THEN m[k] ELSE meta[k]]

IsHeader1(line) == StartsWith(Strip(line), <<"#", SP>>)
HeaderText(line) == Str(Strip(SubSeq(Strip(line), 3, Len(Strip(line)))))

\* the first '# ' header of the lines, "" when there is none
HasHeader1(lines) == \E i \in 1..Len(lines) : IsHeader1(lines[i])
FirstHeader(lines) ==
    HeaderText(lines[CHOOSE i \in 1..Len(lines) :
                        IsHeader1(lines[i]) /\ \A j \in 1..(i-1) : ~IsHeader1(lines[j])])

RECURSIVE DescLoop(_, _, _, _)
\* the description loop: description_lines
DescLoop(lines, name, in_description, description_lines) ==
    IF lines = << >> THEN description_lines
    ELSE IF IsHeader1(lines[1]) /\ Truthy(name) /\ name.t = "str"
            /\ HeaderText(lines[1]) = name.s
    THEN DescLoop(Tail(lines), name, TRUE, description_lines)
    ELSE IF Strip(lines[1]) # << >> /\ Strip(lines[1])[1] = "#" /\ in_description
    THEN description_lines
    ELSE IF in_description /\ Strip(lines[1]) # << >>
    THEN DescLoop(Tail(lines), name, in_description,
                  description_lines \o <<Strip(lines[1])>>)
    ELSE DescLoop(Tail(lines), name, in_description, description_lines)

\* ' '.join(description_lines).strip()
DescJoin(description_lines) == Str(Strip(JoinWith(description_lines, <<SP>>)))

DescText(lines, name) == DescJoin(DescLoop(lines, name, FALSE, << >>))

MetaDefault ==
    [name |-> StrV(""), description |-> StrV(""),
     category |-> StrV("Uncategorized"), tags |-> ListV(<< >>)]

\* lines 175-178: the merge of a frontmatter that is a non-empty mapping
MergeFrontmatter(content, fm) ==
    IF ~fm.err /\ fm.truthy /\ fm.isdict
    THEN [meta |-> Update(MetaDefault, fm.m), content |-> RestLines(content)]
    ELSE [meta |-> MetaDefault, content |-> content]

\* meta and content after the frontmatter step
AfterFrontmatter(content) ==
    IF StartsWithDelim(content) /\ SecondDelim(content) # 0
    THEN MergeFrontmatter(content, LoadFrontmatter(FrontmatterLines(content)))
    ELSE [meta |-> MetaDefault, content |-> content]

HeuristicName(meta, content) ==
    IF ~Truthy(meta["name"]) /\ HasHeader1(content)
    THEN [meta EXCEPT !["name"] = StrV(FirstHeader(content))]
    ELSE meta

SetDescription(meta, description_lines) ==
    IF ~Truthy(meta["description"]) /\ description_lines # << >>
    THEN [meta EXCEPT !["description"] = StrV(DescJoin(description_lines))]
    ELSE meta

HeuristicDescription(meta, content) ==
    SetDescription(meta, DescLoop(content, meta["name"], FALSE, << >>))

\* lines 182-208 on the outcome a of the frontmatter step
Heuristics(a) == HeuristicDescription(HeuristicName(a.meta, a.content), a.content)

\* f is a file: [readable, content]
_parse_metadata(f) ==
    IF ~f.readable THEN MetaDefault ELSE Heuristics(AfterFrontmatter(f.content))

-----------------------------------------------------------------------------
(* Fetcher._parse_skill_md (fetcher.py) *)

\* "<word>:" in line.lower() for one of the words
HasMarker(line, words) ==
    \E i \in 1..(Len(line) - 1) : Lower(line[i]) \in words /\ line[i+1] = ":"

CategoryWords == {"category", "categories"}
TagWords == {"tags", "tag"}

\* "**category:**" in line.lower()
HasBoldMarker(line) ==
    \E i \in 3..(Len(line) - 3) :
        /\ Lower(line[i]) \in CategoryWords
        /\ line[i-2] = "*" /\ line[i-1] = "*"
        /\ line[i+1] = ":" /\ line[i+2] = "*" /\ line[i+3] = "*"

\* s.split('//')[0]
BeforeSlashes(l) ==
    IF \E i \in 1..(Len(l) - 1) : l[i] = "/" /\ l[i+1] = "/"
    THEN SubSeq(l, 1, (CHOOSE i \in 1..(Len(l) - 1) :
                          l[i] = "/" /\ l[i+1] = "/"
                          /\ \A j \in 1..(i-1) : ~(l[j] = "/" /\ l[j+1] = "/")) - 1)
    ELSE l

\* lines 250-258: the text after the first colon, cleaned
MarkerCategory(line) ==
    LET c1 == Strip(StripChars(Strip(After(line, ":")), {"*"}))
        c2 == Strip(StripChars(StripChars(c1, {"\""}), {"'"}))
        c3 == Strip(Before(c2, "#"))
        c4 == Strip(BeforeSlashes(c3))
    IN Strip(Before(c4, ";"))

\* lines 266-268
BoldCategory(line) == Strip(StripChars(Strip(After(line, ":")), {"*"}))

\* the first line that holds a 'category:' marker
FirstMarkerLine(lines) ==
    lines[CHOOSE i \in 1..Len(lines) :
              HasMarker(lines[i], CategoryWords)
              /\ \A j \in 1..(i-1) : ~HasMarker(lines[j], CategoryWords)]

\* the first line that holds a '**category:**' marker
FirstBoldLine(lines) ==
    lines[CHOOSE i \in 1..Len(lines) :
              HasBoldMarker(lines[i]) /\ \A j \in 1..(i-1) : ~HasBoldMarker(lines[j])]

\* lines 262-269: a category found by the first loop is kept, else the
\* '**category:**' lines are searched (<< >> stands for None or '')
OrBoldCategory(first, lines) ==
    IF first # << >> THEN first
    ELSE IF \E i \in 1..Len(lines) : HasBoldMarker(lines[i])
    THEN BoldCategory(FirstBoldLine(lines))
    ELSE << >>

\* category before the clean-up of lines 272-278
RawCategory(lines) ==
    OrBoldCategory(IF \E i \in 1..Len(lines) : HasMarker(lines[i], CategoryWords)
                   THEN MarkerCategory(FirstMarkerLine(lines)) ELSE << >>,
                   lines)

\* category[0].upper() + category[1:]
Capitalize(c) == IF c = << >> THEN c ELSE <<Upper1(c[1])>> \o Tail(c)

\* re.sub(r'[^\w\s-]', '', category).strip(), then the first letter upper-cased
CleanCategory(c) ==
    Capitalize(Strip(SelectSeq(c, LAMBDA t : IsWord(t) \/ t \in {SP, "-"})))

\* category or "Uncategorized"
OrUncategorized(c) == IF c # << >> THEN Str(c) ELSE "Uncategorized"

CategoryOf(lines) == OrUncategorized(CleanCategory(RawCategory(lines)))

\* lines 289-291: the tags of the text after the colon of one marker line
SplitTags(pieces) ==
    [i \in 1..Len(pieces) |-> Str(Strip(StripChars(Strip(pieces[i]), {"*"})))]

LineTags(line) == SplitTags(SplitOn(Strip(After(line, ":")), ","))

RECURSIVE TagsOf(_)
TagsOf(lines) ==
    IF lines = << >> THEN << >>
    ELSE (IF HasMarker(lines[1], TagWords) THEN LineTags(lines[1]) ELSE << >>)
            \o TagsOf(Tail(lines))

\* skill_data: a mapping that has the keys name, description and tags only
\* when the heuristics found them
SkillData(name, description_lines, category, tags) ==
    [k \in {"category"}
            \cup (IF Truthy(name) THEN {"name"} ELSE {})
            \cup (IF description_lines # << >> THEN {"description"} ELSE {})
            \cup (IF tags # << >> THEN {"tags"} ELSE {}) |->
        CASE k = "name" -> name
          [] k = "description" -> StrV(DescJoin(description_lines))
          [] k = "category" -> StrV(category)
          [] OTHER -> ListV(tags)]

\* lines 214-237: the name, then the description that follows its header
WithDescription(lines, name) ==
    SkillData(name, DescLoop(lines, name, FALSE, << >>), CategoryOf(lines), TagsOf(lines))

\* None (the file could not be read) is the empty mapping, which the caller
\* treats as falsy like None
_parse_skill_md(f) ==
    IF ~f.readable THEN << >>
    ELSE WithDescription(f.content,
             IF HasHeader1(f.content) THEN StrV(FirstHeader(f.content)) ELSE StrV(""))

\* dict.get(key, default)
Get(d, k, default) == IF k \in DOMAIN d THEN d[k] ELSE default

-----------------------------------------------------------------------------
(* Paths *)

\* str(path) of a relative path, separators normalised to '/'
RECURSIVE PathStr(_)
PathStr(p) ==
    IF p = <<>> THEN "."
    ELSE IF Len(p) = 1 THEN p[1]
    ELSE p[1] \o "/" \o PathStr(Tail(p))

IsUnder(p, base) == Len(p) >= Len(base) /\ SubSeq(p, 1, Len(base)) = base

\* Path.relative_to: err stands for ValueError
RelativeTo(p, base) ==
    IF IsUnder(p, base) THEN [err |-> FALSE, p |-> SubSeq(p, Len(base) + 1, Len(p))]
    ELSE [err |-> TRUE, p |-> <<>>]

\* Path.name
PathName(p) == IF p = <<>> THEN "" ELSE p[Len(p)]

\* Path.parent
PathParent(p) == IF p = <<>> THEN p ELSE SubSeq(p, 1, Len(p) - 1)

\* Path.parents: parent, grandparent, ..., filesystem root
PathParents(p) == [i \in 1..Len(p) |-> SubSeq(p, 1, Len(p) - i)]

\* str.startswith('cam_') on a directory name of the model
StartsWithCam(name) == name \in {"cam_x", "cam_repo1_k3"}

-----------------------------------------------------------------------------
(* Skill records *)

NoSkill == [some |-> FALSE]
Some(skill) == [some |-> TRUE, skill |-> skill]

\* SkillParser.create_entity_key
create_entity_key(repo_config, entity_name) ==
    repo_config.owner \o "/" \o repo_config.name \o ":" \o entity_name

ReadmeUrl(owner, name, branch, path) ==
    "https://github.com/" \o owner \o "/" \o name \o "/tree/" \o branch \o "/" \o path

\* lines 40-55 of parse_from_file: the repository root of skill_dir.
\* git_dirs are the directories that hold a '.git'; neg_index tells whether
\* the interpreter accepts parents[-2] (Python >= 3.10) or raises IndexError.
RepoRoot(skill_dir, git_dirs, neg_index) ==
    LET parents == PathParents(skill_dir) IN
    IF skill_dir \in git_dirs THEN skill_dir
    ELSE IF \E i \in 1..Len(parents) : parents[i] \in git_dirs
    THEN parents[CHOOSE i \in 1..Len(parents) :
                    parents[i] \in git_dirs /\ \A j \in 1..(i-1) : parents[j] \notin git_dirs]
    ELSE IF neg_index /\ Len(parents) >= 2 THEN parents[Len(parents) - 1]
    ELSE PathParent(skill_dir)

\* lines 57-61: skill_dir relative to the root, the bare name on ValueError
RepoRelativePath(skill_dir, repo_root) ==
    IF RelativeTo(skill_dir, repo_root).err THEN PathName(skill_dir)
    ELSE PathStr(RelativeTo(skill_dir, repo_root).p)

\* lines 63-74: the local source_directory
SourceDirectory(skill_dir, repo_root, repo_config) ==
    IF repo_config.path.set /\ ~RelativeTo(skill_dir, repo_root \o repo_config.path.p).err
    THEN PathStr(RelativeTo(skill_dir, repo_root \o repo_config.path.p).p)
    ELSE RepoRelativePath(skill_dir, repo_root)

\* lines 76-81: the directory used for the key
KeyDirectory(skill_dir, repo_root, repo_config) ==
    IF skill_dir = repo_root
    THEN (IF repo_config.name # "" THEN repo_config.name ELSE ".")
    ELSE PathName(skill_dir)

\* lines 83-96: the Skill.  source_directory is the local variable of that
\* name, which the Skill itself does not hold.
MakeSkill(rc, meta, directory, repo_relative_path, source_directory) ==
    [id |-> create_entity_key(rc, directory),
     name |-> Get(meta, "name", StrV(directory)),
     description |-> Get(meta, "description", StrV("")),
     category |-> Get(meta, "category", StrV("Uncategorized")),
     tags |-> Get(meta, "tags", ListV(<< >>)),
     marketplace_id |-> rc.owner \o "/" \o rc.name,
     repo_owner |-> rc.owner,
     repo_name |-> rc.name,
     repo_branch |-> rc.branch,
     directory |-> directory,
     readme_url |-> ReadmeUrl(rc.owner, rc.name, rc.branch, repo_relative_path),
     source_directory |-> source_directory]

\* lines 57-96, once the repository root is known
SkillAt(a, repo_root) ==
    MakeSkill(a.repo_config, _parse_metadata(a.file),
              KeyDirectory(a.skill_dir, repo_root, a.repo_config),
              RepoRelativePath(a.skill_dir, repo_root),
              SourceDirectory(a.skill_dir, repo_root, a.repo_config))

\* SkillParser.parse_from_file.  a = [file_name, skill_dir, file,
\* repo_config, git_dirs, neg_index]
parse_from_file(a) ==
    IF a.file_name # "SKILL.md" THEN NoSkill
    ELSE IF StartsWithCam(PathName(a.skill_dir)) THEN NoSkill
    ELSE Some(SkillAt(a, RepoRoot(a.skill_dir, a.git_dirs, a.neg_index)))

\* lines 167-172: the directory of the entry
EntryDirectory(c, scan, rel, source_directory) ==
    IF source_directory = "."
    THEN (IF rel # scan THEN PathName(rel) ELSE c.repo_name)
    ELSE PathName(rel)

\* lines 177-189: the entry.  source_directory and dir (skill_dir relative to
\* repo_path) are the local variables, which the entry itself does not hold.
MakeEntry(c, rel, skill_data, source_directory, directory) ==
    [id |-> c.repo_owner \o "/" \o c.repo_name \o ":" \o source_directory,
     name |-> Get(skill_data, "name", StrV(directory)),
     description |-> Get(skill_data, "description", StrV("")),
     category |-> Get(skill_data, "category", StrV("Uncategorized")),
     marketplace_id |-> c.repo_owner \o "/" \o c.repo_name,
     repo_owner |-> c.repo_owner,
     repo_name |-> c.repo_name,
     repo_branch |-> c.repo_branch,
     directory |-> directory,
     readme_url |-> ReadmeUrl(c.repo_owner, c.repo_name, c.repo_branch, PathStr(rel)),
     tags |-> Get(skill_data, "tags", ListV(<< >>)),
     source_directory |-> source_directory,
     dir |-> rel]

EntryFor(c, scan, rel, skill_data, source_directory) ==
    MakeEntry(c, rel, skill_data, source_directory,
              EntryDirectory(c, scan, rel, source_directory))

\* lines 163-195 of clone_and_scan_repository: the entry built for one file.
\* rel is skill_dir relative to repo_path, scan is scan_dir relative to
\* repo_path.  err stands for the ValueError of relative_to.
BuildEntry(c, scan, rel, skill_data) ==
    IF RelativeTo(rel, scan).err THEN [err |-> TRUE]
    ELSE [err |-> FALSE,
          skill |-> EntryFor(c, scan, rel, skill_data, PathStr(RelativeTo(rel, scan).p))]

-----------------------------------------------------------------------------
(* Fetcher.clone_and_scan_repository (fetcher.py) *)

\* the directories of the checkout: the root and every prefix of a file's dir
DirExists(files, d) == d = <<>> \/ \E i \in 1..Len(files) : IsUnder(files[i].dir, d)

RECURSIVE ScanLoop(_, _, _, _)

\* lines 190-195: the entry is appended, a ValueError skips the file
AppendEntry(c, scan, queue, skills, entry) ==
    IF entry.err THEN ScanLoop(c, scan, Tail(queue), skills)
    ELSE ScanLoop(c, scan, Tail(queue), skills \o <<entry.skill>>)

\* lines 158-160: a file that could not be parsed is skipped
Visit(c, scan, queue, skills, skill_data) ==
    IF skill_data = << >> THEN ScanLoop(c, scan, Tail(queue), skills)
    ELSE AppendEntry(c, scan, queue, skills, BuildEntry(c, scan, queue[1].dir, skill_data))

\* the loop over scan_dir.rglob("SKILL.md"); queue is in traversal order.
\* stat is the outcome of skill_dir.is_dir(): a directory, not a directory,
\* or an OSError, which leaves the loop through the handler of line 199
\* (aborted).
ScanLoop(c, scan, queue, skills) ==
    IF queue = << >> THEN [skills |-> skills, aborted |-> FALSE]
    ELSE IF queue[1].stat = "oserror" THEN [skills |-> skills, aborted |-> TRUE]
    ELSE IF queue[1].stat = "notdir" THEN ScanLoop(c, scan, Tail(queue), skills)
    ELSE Visit(c, scan, queue, skills, _parse_skill_md(queue[1].file))

\* scan_dir relative to repo_path: skills_path.strip("/") when it is set
ScanDir(c) == IF c.skills_path.set THEN c.skills_path.p ELSE <<>>

\* the files rglob finds under scan_dir, in traversal order
Discovered(c) == SelectSeq(c.files, LAMBDA f : IsUnder(f.dir, ScanDir(c)))

\* c = [repo_owner, repo_name, repo_branch, skills_path, clone, files]
clone_and_scan_repository(c) ==
    IF c.clone # "ok" THEN [skills |-> <<>>, aborted |-> FALSE]
    ELSE IF c.skills_path.set /\ ~DirExists(c.files, ScanDir(c))
    THEN [skills |-> <<>>, aborted |-> FALSE]
    ELSE ScanLoop(c, ScanDir(c), Discovered(c), <<>>)

-----------------------------------------------------------------------------
(* Inputs: SKILL.md files *)

KV(k, v) == <<k, ":", SP>> \o v

FmFull ==
    << KV("name", <<"Alpha">>), KV("description", <<"Desc">>),
       KV("category", <<"Tools">>), KV("tags", <<"[", "x", ",", SP, "y", "]">>) >>
FmLower ==
    << KV("name", <<"Alpha">>), KV("description", <<"Desc">>),
       KV("category", <<"dev", SP, "tools">>), KV("tags", <<"[", "x", "]">>) >>
FmEmptyDesc ==
    << KV("name", <<"Alpha">>), KV("description", <<"\"", "\"">>),
       KV("category", <<"Tools">>), KV("tags", <<"[", "x", "]">>) >>
FmNameCat == << KV("name", <<"Alpha">>), KV("category", <<"Tools">>) >>
FmBareCat == << KV("name", <<"Alpha">>), <<"category", ":">> >>
FmEmptyCat == << KV("name", <<"Alpha">>), KV("category", <<"\"", "\"">>) >>
FmNoName == << KV("description", <<"Desc">>) >>
FmColon ==
    << KV("name", <<"Alpha">>),
       KV("description", <<"Handles", SP, "urls", ":", SP, "safely">>) >>
FmNested ==
    << KV("name", <<"Alpha">>),
       KV("tags", <<"[", "foo", "[", "bar", "]", ",", SP, "baz", "]">>) >>
FmBroken ==
    << KV("name", <<"Alpha">>), KV("category", <<"Tools">>),
       KV("tags", <<"[", "x", ",", SP, "y">>) >>
FmScalar == << <<"just", SP, "text">> >>

Frontmatters ==
    {FmFull, FmLower, FmEmptyDesc, FmNameCat, FmBareCat, FmEmptyCat, FmNoName,
     FmColon, FmNested, FmBroken, FmScalar}

\* lines of frontmatter blocks for the repair pass
LnName == KV("name", <<"Alpha">>)
LnColon == KV("description", <<"Handles", SP, "urls", ":", SP, "safely">>)
LnQuotedColon == KV("description", <<"\"", "x", ":", SP, "y", "\"">>)
LnNested == KV("tags", <<"[", "foo", "[", "bar", "]", ",", SP, "baz", "]">>)
LnNestedComma ==
    KV("tags", <<"[", "foo", "[", "a", ",", SP, "b", "]", ",", SP, "baz", "]">>)
LnNestedQuoted ==
    KV("tags", <<"[", "\"", "q", "[", "r", "]", "\"", ",", SP,
                 "foo", "[", "bar", "]", ",", SP, "baz", "]">>)
LnSeqColon == KV("tags", <<"[", "a", ":", SP, "b", ",", SP, "c", "]">>)
LnComment == <<"#", SP, "note", ":", SP, "text">>
LnBroken == KV("tags", <<"[", "x", ",", SP, "y">>)

RepairLines ==
    {LnName, LnColon, LnQuotedColon, LnNested, LnNestedComma, LnNestedQuoted,
     LnSeqColon, LnComment, LnBroken}

\* blocks of at most MaxLines lines
Blocks == UNION {[1..n -> RepairLines] : n \in 1..MaxLines}

\* the repair pass runs on the blocks that yaml.safe_load rejected
RepairBlocks == {b \in Blocks : yaml_safe_load(b).err}

BodyEmpty == << >>
BodyText == << <<"body", SP, "text">> >>
BodyBeta ==
    << <<"#", SP, "Beta">>, << >>, <<"body", SP, "text">>, <<SP, "more">>,
       <<"#", "#", SP, "Sub">>, <<"x">> >>
BodyAlpha == << <<"#", SP, "Alpha">>, <<"body", SP, "text">> >>
BodyMarkers ==
    << <<"#", SP, "Beta">>,
       <<"*", "*", "Category", ":", "*", "*", SP, "tools">>,
       <<"Tags", ":", SP, "x", ",", SP, "y">> >>

\* the '# Beta' header comes twice, with a paragraph after each
BodyRepeat ==
    << <<"#", SP, "Beta">>, <<"one">>, <<"#", SP, "Beta">>, <<"two">> >>

Bodies == {BodyEmpty, BodyText, BodyBeta, BodyAlpha, BodyMarkers, BodyRepeat}

\* a file with a frontmatter block, one without, one whose block is not closed
Doc(fm, body) == << <<Delim>> >> \o fm \o << <<Delim>> >> \o body
Unclosed(fm, body) == << <<Delim>> >> \o fm \o body

Contents ==
    {Doc(fm, body) : fm \in Frontmatters, body \in Bodies}
        \cup Bodies
        \cup {Unclosed(FmFull, BodyBeta)}

File(content) == [readable |-> TRUE, content |-> content]
Unreadable == [readable |-> FALSE, content |-> << >>]

Files == {File(c) : c \in Contents} \cup {Unreadable}

\* the frontmatter block a file was written with (<<>> when it has none)
HasFrontmatter(f, fm) == f.readable /\ \E body \in Bodies : f.content = Doc(fm, body)

-----------------------------------------------------------------------------
(* Inputs: repositories *)

Owners == {"acme"}
RepoNames == {"repo1"}
Branches == {"main", "dev"}

NoPath == [set |-> FALSE, p |-> << >>]
SubPath(p) == [set |-> TRUE, p |-> p]

\* directories of a checkout that may hold a SKILL.md, relative to its root
SkillDirs ==
    { << >>, <<"a", "foo">>, <<"b", "foo">>, <<"cam_x">>, <<"skills">>,
      <<"skills", "foo">> }

\* checkout roots handed to parse_from_file: the temporary directory made by
\* GitRepository.clone (mkdtemp(prefix="cam_{name}_")), a working copy, and
\* directories without a '.git'
CloneTempDir == <<"tmp", "cam_repo1_k3">>
Checkouts ==
    { [root |-> CloneTempDir, git |-> TRUE],
      [root |-> <<"work", "repo1">>, git |-> TRUE],
      [root |-> <<"work", "plain">>, git |-> FALSE],
      [root |-> <<"data">>, git |-> FALSE] }

ParserConfigs ==
    [owner : Owners, name : RepoNames \cup {""}, branch : {"main"},
     path : {NoPath, SubPath(<<"skills">>)}]

\* the arguments of one parse_from_file call, with the state of the file
\* system around the file (root is the root of the checkout)
ParserInput(n, co, d, f, rc, ni) ==
    [file_name |-> n, skill_dir |-> co.root \o d, file |-> f, repo_config |-> rc,
     git_dirs |-> IF co.git THEN {co.root} ELSE {}, neg_index |-> ni,
     root |-> co.root]

\* the SKILL.md files a scanned checkout is made of
ScanFiles ==
    { File(Doc(FmNameCat, BodyEmpty)), File(Doc(FmFull, BodyBeta)),
      File(BodyText), File(BodyMarkers), Unreadable }

ScanEntries ==
    [dir : SkillDirs, file : ScanFiles, stat : {"dir"}]
        \cup [dir : SkillDirs, file : {File(BodyText)}, stat : {"notdir", "oserror"}]

\* traversal orders: sequences of at most MaxFiles files in distinct directories
Traversals ==
    UNION { { q \in [1..n -> ScanEntries] :
                \A i, j \in 1..n : i # j => q[i].dir # q[j].dir } : n \in 0..MaxFiles }

FetcherPaths == {NoPath, SubPath(<<"skills">>), SubPath(<< >>), SubPath(<<"missing">>)}

\* a checkout exists only when the clone succeeded
ScanInputs ==
    [repo_owner : Owners, repo_name : RepoNames, repo_branch : Branches,
     skills_path : FetcherPaths, clone : {"ok"}, files : Traversals]
        \cup [repo_owner : Owners, repo_name : RepoNames, repo_branch : Branches,
              skills_path : FetcherPaths, clone : {"fail", "timeout"},
              files : {<< >>}]

-----------------------------------------------------------------------------
(* Fetcher.fetch_json and its cache (fetcher.py) *)

Urls == {"u1", "u2"}

\* hashlib.md5(url.encode()).hexdigest(), kept symbolic
_get_cache_key(url) == "md5(" \o url \o ")"

None == "None"

\* what session.get, raise_for_status and response.json give for a request:
\* a JSON dictionary, a body that is JSON but no dictionary, a
\* RequestException, a JSONDecodeError
Responses ==
    { [kind |-> "dict", data |-> "d1"], [kind |-> "dict", data |-> "d2"],
      [kind |-> "list", data |-> "l1"],
      [kind |-> "request_error", data |-> None],
      [kind |-> "decode_error", data |-> None] }

EmptyCache == [k \in {} |-> None]

\* no Fetcher is in use
NoFetcher == [cache_ttl |-> 0, cache |-> EmptyCache]

\* the mutated validity test: an entry as old as cache_ttl is still valid
_is_cache_valid_le(cache_entry, t, cache_ttl) == (t - cache_entry.timestamp) <= cache_ttl

\* lines 34-38 (every entry of the cache has a timestamp)
_is_cache_valid(cache_entry, t, cache_ttl) == (t - cache_entry.timestamp) < cache_ttl

\* del self.cache[cache_key]
Delete(cache, cache_key) == [k \in DOMAIN cache \ {cache_key} |-> cache[k]]

\* lines 40-51: the data returned and the cache left behind
_get_cached_data(s, url, t) ==
    IF _get_cache_key(url) \in DOMAIN s.cache
    THEN IF _is_cache_valid(s.cache[_get_cache_key(url)], t, s.cache_ttl)
         THEN [data |-> s.cache[_get_cache_key(url)].data, cache |-> s.cache]
         ELSE [data |-> None, cache |-> Delete(s.cache, _get_cache_key(url))]
    ELSE [data |-> None, cache |-> s.cache]

\* lines 53-59
_set_cached_data(cache, url, data, t) ==
    [k \in DOMAIN cache \cup {_get_cache_key(url)} |->
        IF k = _get_cache_key(url) THEN [data |-> data, timestamp |-> t] ELSE cache[k]]

\* lines 68-93: the request, made on a cache miss
Request(cache, url, response, t) ==
    IF response.kind = "dict"
    THEN [returned |-> response.data, requested |-> TRUE,
          cache |-> _set_cached_data(cache, url, response.data, t)]
    ELSE [returned |-> None, requested |-> TRUE, cache |-> cache]

\* lines 64-66, then the request
AfterLookup(cached, url, response, t) ==
    IF cached.data # None
    THEN [returned |-> cached.data, requested |-> FALSE, cache |-> cached.cache]
    ELSE Request(cached.cache, url, response, t)

\* Fetcher.fetch_json: the value returned, whether an HTTP request was made,
\* and self.cache afterwards
fetch_json(s, url, response, t) ==
    AfterLookup(_get_cached_data(s, url, t), url, response, t)

\* Fetcher.__init__
FetcherInit ==
    /\ call = "none"
    /\ \E cache_ttl \in 0..MaxTtl :
        /\ call' = "Fetcher"
        /\ input' = [cache_ttl |-> cache_ttl]
        /\ self' = [cache_ttl |-> cache_ttl, cache |-> EmptyCache]
    /\ result' = << >>
    /\ UNCHANGED now

\* one fetch_json call on the Fetcher in use; input keeps the cache and the
\* time the call started with
FetchJson ==
    /\ call \in {"Fetcher", "fetch_json"}
    /\ \E url \in Urls, response \in Responses :
        /\ call' = "fetch_json"
        /\ input' = [url |-> url, response |-> response, cache |-> self.cache,
                     time |-> now]
        /\ result' = [returned |-> fetch_json(self, url, response, now).returned,
                      requested |-> fetch_json(self, url, response, now).requested]
        /\ self' = [self EXCEPT !.cache = fetch_json(self, url, response, now).cache]
    /\ UNCHANGED now

\* time passes between two calls
Tick ==
    /\ call \in {"Fetcher", "fetch_json"}
    /\ now < MaxTime
    /\ now' = now + 1
    /\ UNCHANGED <<call, input, result, self>>

-----------------------------------------------------------------------------
(* The operations.  Every call is made from the idle state (call = "none") *)
(* and is one step.                                                        *)

Init ==
    /\ call = "none"
    /\ input = << >>
    /\ result = << >>
    /\ self = NoFetcher
    /\ now = 0

ParseFromFile ==
    /\ call = "none"
    /\ \E n \in {"SKILL.md", "README.md"}, co \in Checkouts, d \in SkillDirs,
          f \in Files, rc \in ParserConfigs, ni \in BOOLEAN :
        /\ call' = "parse_from_file"
        /\ input' = ParserInput(n, co, d, f, rc, ni)
        /\ result' = parse_from_file(ParserInput(n, co, d, f, rc, ni))
    /\ UNCHANGED fetcher_vars

ParseMetadata ==
    /\ call = "none"
    /\ \E f \in Files :
        /\ call' = "_parse_metadata"
        /\ input' = f
        /\ result' = _parse_metadata(f)
    /\ UNCHANGED fetcher_vars

ParseSkillMd ==
    /\ call = "none"
    /\ \E f \in Files :
        /\ call' = "_parse_skill_md"
        /\ input' = f
        /\ result' = _parse_skill_md(f)
    /\ UNCHANGED fetcher_vars

\* the except branch of the strict parse (parsers.py:124-173)
RepairPass ==
    /\ call = "none"
    /\ \E fm \in RepairBlocks :
        /\ call' = "repair_pass"
        /\ input' = fm
        /\ result' = repair_pass(fm)
    /\ UNCHANGED fetcher_vars

CloneAndScanRepository ==
    /\ call = "none"
    /\ \E c \in ScanInputs :
        /\ call' = "clone_and_scan_repository"
        /\ input' = c
        /\ result' = clone_and_scan_repository(c)
    /\ UNCHANGED fetcher_vars

-----------------------------------------------------------------------------
(* GitRepository.clone (repository.py), a context manager: its steps are   *)
(* separate actions, and result holds the state of the generator.          *)

BRANCH_FALLBACKS == <<"main", "master", "develop", "development", "dev", "trunk">>

InFallbacks(b) == \E i \in 1..Len(BRANCH_FALLBACKS) : BRANCH_FALLBACKS[i] = b

\* self.branch: "" stands for None
RequestedBranches == {"", "main", "dev", "feature"}
\* what _get_default_branch returns ("main" also when the detection fails)
DetectedBranches == {"main", "trunk", "release"}

\* lines 68-77: the branch tried first
FirstBranch(branch, detected) ==
    IF branch = "" THEN detected
    ELSE IF branch = "main" /\ detected # "main" THEN detected
    ELSE branch

\* lines 80-84
BranchesToTry(actual_branch) ==
    <<actual_branch>> \o
        (IF InFallbacks(actual_branch)
         THEN SelectSeq(BRANCH_FALLBACKS, LAMBDA b : b # actual_branch)
         ELSE << >>)

\* outcomes of one 'git clone' run by subprocess.run(check=True, timeout=60):
\* exit status 0, CalledProcessError, TimeoutExpired
CloneOutcomes == {"ok", "error", "timeout"}

\* lines 63-86: mkdtemp, the choice of the first branch, branches_to_try
CloneEnter ==
    /\ call = "none"
    /\ \E b \in RequestedBranches, d \in DetectedBranches :
        /\ call' = "clone"
        /\ input' = [owner |-> "acme", name |-> "repo1", branch |-> b, detected |-> d]
        /\ result' = [pc |-> "try", temp_dir |-> TRUE,
                      branches_to_try |-> BranchesToTry(FirstBranch(b, d)),
                      tried |-> << >>, yields |-> << >>, raised |-> "none"]
    /\ UNCHANGED fetcher_vars

\* the state after the clone of branch ended with outcome o
AfterAttempt(r, branch, o) ==
    [r EXCEPT !.tried = Append(@, [branch |-> branch, outcome |-> o]),
              !.pc = CASE o = "ok" -> "yield"
                       [] o = "timeout" -> "finally"
                       [] branch = r.branches_to_try[Len(r.branches_to_try)] -> "finally"
                       [] OTHER -> "try",
              !.raised = CASE o = "ok" -> "none"
                           [] o = "timeout" -> "TimeoutExpired"
                           [] branch = r.branches_to_try[Len(r.branches_to_try)] ->
                                 "RuntimeError"
                           [] OTHER -> "none"]

\* lines 87-105: one iteration of the loop over branches_to_try
CloneAttempt ==
    /\ call = "clone"
    /\ result.pc = "try"
    /\ \E o \in CloneOutcomes :
        result' = AfterAttempt(result, result.branches_to_try[Len(result.tried) + 1], o)
    /\ UNCHANGED <<call, input>>
    /\ UNCHANGED fetcher_vars

\* line 110: yield temp_dir, actual_branch
CloneYield ==
    /\ call = "clone"
    /\ result.pc = "yield"
    /\ result' = [result EXCEPT
                     !.yields = Append(@, [temp_dir |-> result.temp_dir,
                                           actual_branch |->
                                               result.tried[Len(result.tried)].branch]),
                     !.pc = "body"]
    /\ UNCHANGED <<call, input>>
    /\ UNCHANGED fetcher_vars

\* the body of the with statement ends, normally or with an exception that
\* is thrown into the generator at the yield
CloneBody ==
    /\ call = "clone"
    /\ result.pc = "body"
    /\ \E raised \in {"none", "body"} :
        result' = [result EXCEPT !.pc = "finally", !.raised = raised]
    /\ UNCHANGED <<call, input>>
    /\ UNCHANGED fetcher_vars

\* lines 112-114: shutil.rmtree(temp_dir, ignore_errors=True)
CloneFinally ==
    /\ call = "clone"
    /\ result.pc = "finally"
    /\ result' = [result EXCEPT !.temp_dir = FALSE, !.pc = "done"]
    /\ UNCHANGED <<call, input>>
    /\ UNCHANGED fetcher_vars

\* the with statement is left
CloneExit ==
    /\ call = "clone"
    /\ result.pc = "done"
    /\ call' = "none"
    /\ input' = << >>
    /\ result' = << >>
    /\ UNCHANGED fetcher_vars

\* the caller takes the result; the next call starts from scratch
Return ==
    /\ call \notin {"none", "clone"}
    /\ call' = "none"
    /\ input' = << >>
    /\ result' = << >>
    /\ self' = NoFetcher
    /\ now' = 0

Next ==
    \/ ParseFromFile
    \/ ParseMetadata
    \/ ParseSkillMd
    \/ RepairPass
    \/ CloneAndScanRepository
    \/ CloneEnter
    \/ CloneAttempt
    \/ CloneYield
    \/ CloneBody
    \/ CloneFinally
    \/ CloneExit
    \/ FetcherInit
    \/ FetchJson
    \/ Tick
    \/ Return

Spec == Init /\ [][Next]_vars

-----------------------------------------------------------------------------
(* Vocabulary of the properties *)

IsParse == call = "parse_from_file"
IsScan == call = "clone_and_scan_repository"
Produced == IsParse /\ result.some

\* parse_from_file produced a Skill for a readable SKILL.md of a checkout
\* that has its '.git' at the root, for a repository that has a name
ProducedInCheckout ==
    /\ Produced
    /\ input.file.readable
    /\ input.root \in input.git_dirs
    /\ input.repo_config.name # ""

\* the scan reached the loop: the clone succeeded and scan_dir exists
ScanRan ==
    /\ IsScan
    /\ input.clone = "ok"
    /\ (input.skills_path.set => DirExists(input.files, ScanDir(input)))

\* the SKILL.md of the scanned checkout that the entry k was built from
FileAt(c, d) == c.files[CHOOSE i \in 1..Len(c.files) : c.files[i].dir = d].file

\* a discovered file that processes successfully when the loop reaches it
Processable(e) == e.stat = "dir" /\ e.file.readable

Key(owner, name, source_directory) == owner \o "/" \o name \o ":" \o source_directory

NonEmptyStr(v) == v.t = "str" /\ v.s # ""

\* the name the fallback chain frontmatter -> first '# ' header -> directory
\* gives for a file
ChainName(f, directory) ==
    LET a == IF f.readable THEN AfterFrontmatter(f.content)
             ELSE [meta |-> MetaDefault, content |-> << >>]
    IN IF NonEmptyStr(a.meta["name"]) THEN a.meta["name"]
       ELSE IF HasHeader1(a.content) THEN StrV(FirstHeader(a.content))
       ELSE StrV(directory)

\* frontmatter blocks that are valid and hold all four keys, none of them
\* with an empty value
FullFrontmatters == {FmFull, FmLower}

\* both the strict parse and the parse of the repaired block fail
BothParsesFail(f) ==
    /\ f.readable
    /\ StartsWithDelim(f.content)
    /\ SecondDelim(f.content) # 0
    /\ yaml_safe_load(FrontmatterLines(f.content)).err
    /\ yaml_safe_load(FixLines(FrontmatterLines(f.content))).err

-----------------------------------------------------------------------------
(* Properties *)

\* C1: every Skill produced by parse_from_file or by
\* clone_and_scan_repository has id "{owner}/{name}:{source_directory}",
\* source_directory being the path of the skill directory relative to the
\* repository root (or to the configured sub-path), so that skills of
\* different directories of one repository have different ids.  (The
\* root-level skill, whose source_directory is ".", is the subject of C6; the
\* parse_from_file part is stated for the directories below the root.)
C1_IdFromSourceDirectory ==
    /\ (ProducedInCheckout /\ input.skill_dir # input.root) =>
          result.skill.id = Key(input.repo_config.owner, input.repo_config.name,
                                result.skill.source_directory)
    /\ IsScan =>
          /\ \A k \in 1..Len(result.skills) :
                result.skills[k].id =
                    Key(input.repo_owner, input.repo_name,
                        PathStr(RelativeTo(result.skills[k].dir, ScanDir(input)).p))
          /\ \A k, l \in 1..Len(result.skills) :
                k # l => result.skills[k].id # result.skills[l].id

\* C2: no Skill is produced for a SKILL.md whose directory name starts with
\* 'cam_', neither by parse_from_file nor in the list returned by
\* clone_and_scan_repository.
C2_NoSkillForCamDirectory ==
    /\ ProducedInCheckout => ~StartsWithCam(PathName(input.skill_dir))
    /\ IsScan =>
          \A k \in 1..Len(result.skills) :
              ~StartsWithCam(PathName(result.skills[k].dir))

\* C3: the category of every produced Skill is a non-empty string.
C3_CategoryNeverEmpty ==
    /\ ProducedInCheckout => NonEmptyStr(result.skill.category)
    /\ IsScan =>
          \A k \in 1..Len(result.skills) : NonEmptyStr(result.skills[k].category)

\* C4: the name of every produced Skill is the frontmatter name, else the
\* text of the first '# ' header, else the directory display name; it is
\* never empty.
C4_NameFallbackChain ==
    /\ ProducedInCheckout =>
          /\ NonEmptyStr(result.skill.name)
          /\ result.skill.name = ChainName(input.file, result.skill.directory)
    /\ IsScan =>
          \A k \in 1..Len(result.skills) :
              /\ NonEmptyStr(result.skills[k].name)
              /\ result.skills[k].name =
                    ChainName(FileAt(input, result.skills[k].dir),
                              result.skills[k].directory)

\* C5: in every produced Skill directory is non-empty, and it is the
\* repository name only when the SKILL.md sits at the repository root.
C5_DirectoryIsRepoNameOnlyAtRoot ==
    /\ ProducedInCheckout =>
          /\ result.skill.directory # ""
          /\ result.skill.directory = input.repo_config.name
                => input.skill_dir = input.root
    /\ IsScan =>
          \A k \in 1..Len(result.skills) :
              /\ result.skills[k].directory # ""
              /\ result.skills[k].directory = input.repo_name
                    => result.skills[k].dir = << >>

\* C6: for a SKILL.md exactly at the root of a materialized checkout (the
\* directory made by GitRepository.clone included) a Skill is produced, with
\* directory equal to the repository's configured name and source_directory
\* equal to ".".
C6_RootSkill ==
    /\ (/\ IsParse
        /\ input.file_name = "SKILL.md"
        /\ input.file.readable
        /\ input.skill_dir = input.root
        /\ input.root \in input.git_dirs
        /\ input.repo_config.name # "")
          => /\ result.some
             /\ result.skill.directory = input.repo_config.name
             /\ result.skill.source_directory = "."
    /\ (ScanRan /\ ~result.aborted) =>
          \A i \in 1..Len(input.files) :
              (input.files[i].dir = << >> /\ Processable(input.files[i])) =>
                  \E k \in 1..Len(result.skills) :
                      /\ result.skills[k].dir = << >>
                      /\ result.skills[k].directory = input.repo_name
                      /\ result.skills[k].source_directory = "."

\* C7: for a valid frontmatter that holds name, description, category and
\* tags, the output of the extractor (_parse_metadata, _parse_skill_md) has
\* exactly the four frontmatter values, whatever the body holds.
C7_FrontmatterValuesKept ==
    (call \in {"_parse_metadata", "_parse_skill_md"}) =>
        \A fm \in FullFrontmatters :
            HasFrontmatter(input, fm) =>
                \A key \in MetaKeys :
                    /\ key \in DOMAIN result
                    /\ result[key] = yaml_safe_load(fm).m[key]

\* C8: a scan of a checkout holding one SKILL.md in a nested directory d,
\* with frontmatter name N and category C, for the repository (o, r, b)
\* returns exactly one Skill, with id "o/r:d", name N, category C and a
\* readme_url ending in "/tree/b/d".
C8_EndToEndScan ==
    (/\ ScanRan
     /\ ~input.skills_path.set
     /\ Len(input.files) = 1
     /\ input.files[1].dir # << >>
     /\ input.files[1].stat = "dir"
     /\ HasFrontmatter(input.files[1].file, FmNameCat))
        => /\ Len(result.skills) = 1
           /\ result.skills[1].id =
                 Key(input.repo_owner, input.repo_name, PathStr(input.files[1].dir))
           /\ result.skills[1].name = StrV("Alpha")
           /\ result.skills[1].category = StrV("Tools")
           /\ result.skills[1].readme_url =
                 ReadmeUrl(input.repo_owner, input.repo_name, input.repo_branch,
                           PathStr(input.files[1].dir))

\* C9: in clone_and_scan_repository a failure or a skip on one discovered
\* SKILL.md never aborts the scan: the returned list holds a Skill for every
\* other discovered file that processes successfully, the files after the
\* failing one included.
C9_FailureNeverAbortsScan ==
    ScanRan =>
        \A i \in 1..Len(input.files) :
            (IsUnder(input.files[i].dir, ScanDir(input)) /\ Processable(input.files[i]))
                => \E k \in 1..Len(result.skills) :
                       result.skills[k].dir = input.files[i].dir

\* C10: _parse_metadata never raises and always returns a mapping with the
\* keys name, description, category and tags; when the frontmatter fails the
\* strict parse and the parse of the repaired block, no frontmatter value is
\* merged: category and tags keep their defaults, name and description come
\* from the header heuristics.
C10_ParseMetadataTotal ==
    call = "_parse_metadata" =>
        /\ MetaKeys \subseteq DOMAIN result
        /\ BothParsesFail(input) =>
              /\ result["category"] = StrV("Uncategorized")
              /\ result["tags"] = ListV(<< >>)
              /\ result["name"] =
                    (IF HasHeader1(input.content)
                     THEN StrV(FirstHeader(input.content)) ELSE StrV(""))
              /\ result["description"] =
                    StrV(DescText(input.content, result["name"]))

\* C10 witness: a file whose frontmatter fails both parses was parsed, and
\* its name was taken from the '# Beta' header
C10_Witness ==
    /\ call = "_parse_metadata"
    /\ BothParsesFail(input)
    /\ result["name"] = StrV("Beta")
    /\ result["description"] = StrV("body text more")

\* a line that starts with '#' once stripped: a header of any level
StartsHash(line) == Strip(line) # << >> /\ Strip(line)[1] = "#"

NameHeaderAt(lines, name, i) == IsHeader1(lines[i]) /\ HeaderText(lines[i]) = name

\* the text between the first '# <name>' header and the next header line,
\* blank lines dropped, the others stripped and joined with single spaces
ParagraphAfter(lines, name) ==
    IF name = "" \/ ~\E i \in 1..Len(lines) : NameHeaderAt(lines, name, i) THEN ""
    ELSE LET h == CHOOSE i \in 1..Len(lines) :
                      NameHeaderAt(lines, name, i)
                          /\ \A j \in 1..(i-1) : ~NameHeaderAt(lines, name, j)
             e == IF \E j \in (h+1)..Len(lines) : StartsHash(lines[j])
                  THEN CHOOSE j \in (h+1)..Len(lines) :
                           StartsHash(lines[j])
                               /\ \A k \in (h+1)..(j-1) : ~StartsHash(lines[k])
                  ELSE Len(lines) + 1
             kept == SelectSeq(SubSeq(lines, h + 1, e - 1), LAMBDA l : Strip(l) # << >>)
         IN Str(JoinWith([k \in 1..Len(kept) |-> Strip(kept[k])], <<SP>>))

\* C11: when the frontmatter sets no description, the description is the
\* single-space join of the non-empty lines between the header whose text is
\* the resolved name and the next header line of any level (a repeated
\* '# <name>' line included); for '# Beta' followed by a paragraph and no
\* frontmatter, the name is "Beta" and the description is the paragraph on
\* one line.
C11_HeuristicDescription ==
    /\ (call = "_parse_metadata" /\ input.readable
            /\ ~Truthy(AfterFrontmatter(input.content).meta["description"])) =>
          result["description"] =
              StrV(ParagraphAfter(AfterFrontmatter(input.content).content,
                                  result["name"].s))
    /\ (call = "_parse_skill_md" /\ input.readable) =>
          Get(result, "description", StrV("")) =
              StrV(ParagraphAfter(input.content, Get(result, "name", StrV("")).s))
    /\ (call \in {"_parse_metadata", "_parse_skill_md"} /\ input = File(BodyBeta)) =>
          /\ result["name"] = StrV("Beta")
          /\ result["description"] = StrV("body text more")

\* the parts of a 'key: value' line that the repair pass works on
IsKeyValueLine(line) == Contains(line, ":") /\ ~StartsHash(line)
LineKey(line) == Before(line, ":")
LineValue(line) == Strip(After(line, ":"))
Bracketed(val) == val # << >> /\ val[1] = "[" /\ val[Len(val)] = "]"
Quoted(v) == <<"\"">> \o v \o <<"\"">>

\* number of '[' minus number of ']' before position i
BracketDepth(body, i) ==
    Cardinality({j \in 1..(i-1) : body[j] = "["})
        - Cardinality({j \in 1..(i-1) : body[j] = "]"})

TopCommas(body) == {i \in 1..Len(body) : body[i] = "," /\ BracketDepth(body, i) = 0}

NthTopComma(body, k) ==
    CHOOSE i \in TopCommas(body) : Cardinality({j \in TopCommas(body) : j < i}) = k - 1

\* the pieces of body between the commas at bracket depth 0, stripped; an
\* empty last piece is no item
TopLevelItems(body) ==
    LET n == Cardinality(TopCommas(body))
        all == [k \in 1..(n+1) |->
                   Strip(SubSeq(body,
                                IF k = 1 THEN 1 ELSE NthTopComma(body, k-1) + 1,
                                IF k = n + 1 THEN Len(body) ELSE NthTopComma(body, k) - 1))]
    IN IF all[n+1] = << >> THEN SubSeq(all, 1, n) ELSE all

\* the string an item of the repaired sequence stands for
ItemText(item) ==
    IF StartsQuoted(item) THEN Str(SubSeq(item, 2, Len(item) - 1)) ELSE Str(item)

NestedItems(line) == TopLevelItems(SubSeq(LineValue(line), 2, Len(LineValue(line)) - 1))

\* a 'key: [..]' line with an unquoted nested-bracket item
HasNestedItem(line) ==
    /\ IsKeyValueLine(line)
    /\ Bracketed(LineValue(line))
    /\ HasNestedBracket(LineValue(line))

\* C12: on a line whose value is a bracketed sequence with an unquoted
\* nested-bracket item, the repair pass splits the sequence only at the
\* commas at bracket depth 0, keeps the items in order and unchanged, and
\* quotes the items that hold a '[' and are not quoted already; when the
\* repaired block parses, the value is the sequence of the top-level items,
\* one string each; 'tags: [foo[bar], baz]' gives the tags "foo[bar]" and
\* "baz", also through _parse_metadata.
C12_NestedBracketRepair ==
    /\ call = "repair_pass" =>
          \A i \in 1..Len(input) :
              HasNestedItem(input[i]) =>
                  /\ result.fixed_lines[i] =
                        LineKey(input[i]) \o <<":", SP, "[">>
                          \o JoinWith([k \in 1..Len(NestedItems(input[i])) |->
                                         IF Contains(NestedItems(input[i])[k], "[")
                                               /\ ~StartsQuoted(NestedItems(input[i])[k])
                                         THEN Quoted(NestedItems(input[i])[k])
                                         ELSE NestedItems(input[i])[k]],
                                      <<",", SP>>)
                          \o <<"]">>
                  /\ (~result.frontmatter.err
                        /\ \A j \in (i+1)..Len(input) :
                               LineKey(input[j]) # LineKey(input[i])) =>
                        result.frontmatter.m[Str(LineKey(input[i]))] =
                            ListV([k \in 1..Len(NestedItems(input[i])) |->
                                      ItemText(NestedItems(input[i])[k])])
    /\ (call = "repair_pass" /\ input = <<LnName, LnNested>>) =>
          /\ ~result.frontmatter.err
          /\ result.frontmatter.m["tags"] = ListV(<<"foo[bar]", "baz">>)
    /\ (call = "_parse_metadata" /\ HasFrontmatter(input, FmNested)) =>
          result["tags"] = ListV(<<"foo[bar]", "baz">>)

\* C12 witness: a sequence with a comma inside the nested brackets and one
\* with an item quoted already were repaired in one block, and the block
\* parsed
C12_Witness ==
    /\ call = "repair_pass"
    /\ input = <<LnNestedComma, LnNestedQuoted>>
    /\ ~result.frontmatter.err
    /\ result.frontmatter.m["tags"] = ListV(<<"q[r]", "foo[bar]", "baz">>)

\* C13: in the repaired block every 'key: value' line whose value holds a
\* colon and is not quoted already has its whole value wrapped in quotes,
\* the values of the form '[...]' without a nested-bracket item included;
\* 'description: Handles urls: safely' is parsed as one intact string, also
\* through _parse_metadata.
C13_ColonValuesQuoted ==
    /\ call = "repair_pass" =>
          \A i \in 1..Len(input) :
              (/\ IsKeyValueLine(input[i])
               /\ Contains(LineValue(input[i]), ":")
               /\ ~StartsQuoted(LineValue(input[i]))
               /\ ~HasNestedItem(input[i])) =>
                  result.fixed_lines[i] =
                      LineKey(input[i]) \o <<":", SP>> \o Quoted(LineValue(input[i]))
    /\ (call = "repair_pass" /\ input = <<LnName, LnColon>>) =>
          /\ ~result.frontmatter.err
          /\ result.frontmatter.m["description"] = StrV("Handles urls: safely")
    /\ (call = "_parse_metadata" /\ HasFrontmatter(input, FmColon)) =>
          result["description"] = StrV("Handles urls: safely")

\* the directories from skill_dir upward that hold a '.git'
GitAbove(skill_dir, git_dirs) == {g \in git_dirs : IsUnder(skill_dir, g)}

\* the root C14 describes: the nearest directory with a '.git', skill_dir
\* itself when there is none
DiscoveredRoot(skill_dir, git_dirs) ==
    IF GitAbove(skill_dir, git_dirs) = {} THEN skill_dir
    ELSE CHOOSE g \in GitAbove(skill_dir, git_dirs) :
             \A h \in GitAbove(skill_dir, git_dirs) : Len(h) <= Len(g)

\* C14: parse_from_file takes as repository root the nearest directory,
\* from the SKILL.md's parent upward, that holds a '.git'; when there is
\* none, the root is the SKILL.md's parent itself, so the skill is
\* root-level: repository-relative path '.', directory the repository name.
C14_RootDiscovery ==
    (Produced /\ input.repo_config.name # "") =>
        /\ result.skill.readme_url =
              ReadmeUrl(input.repo_config.owner, input.repo_config.name,
                        input.repo_config.branch,
                        PathStr(RelativeTo(input.skill_dir,
                                           DiscoveredRoot(input.skill_dir,
                                                          input.git_dirs)).p))
        /\ result.skill.directory =
              (IF input.skill_dir = DiscoveredRoot(input.skill_dir, input.git_dirs)
               THEN input.repo_config.name ELSE PathName(input.skill_dir))

\* the order C15 describes for the branches
BranchOrder(branch, detected) ==
    LET first == IF branch = "" \/ (branch = "main" /\ detected # "main")
                 THEN detected ELSE branch
    IN <<first>> \o (IF InFallbacks(first)
                     THEN SelectSeq(BRANCH_FALLBACKS, LAMBDA b : b # first)
                     ELSE << >>)

CloneSucceeded == \E i \in 1..Len(result.tried) : result.tried[i].outcome = "ok"
CloneLeft == result.pc \in {"finally", "done"}

\* C15: clone tries the branches in a fixed order (the requested or detected
\* branch, then the remaining fallbacks when that branch is a fallback) up to
\* the first success; it yields at most once, with the branch whose clone
\* succeeded; it raises RuntimeError without yielding when every attempted
\* branch failed; the temporary directory is removed on every exit path.
C15_CloneBranchFallback ==
    call = "clone" =>
        /\ \A i \in 1..Len(result.tried) :
              /\ result.tried[i].branch = BranchOrder(input.branch, input.detected)[i]
              /\ i < Len(result.tried) => result.tried[i].outcome # "ok"
        /\ Len(result.yields) <= 1
        /\ result.yields # << >> =>
              /\ result.tried[Len(result.tried)].outcome = "ok"
              /\ result.yields[1].actual_branch = result.tried[Len(result.tried)].branch
        /\ (CloneLeft /\ ~CloneSucceeded) =>
              /\ result.raised = "RuntimeError"
              /\ result.yields = << >>
              /\ Len(result.tried) = Len(BranchOrder(input.branch, input.detected))
        /\ result.pc = "done" => ~result.temp_dir

\* the cache the call started with holds an entry for the URL that is
\* younger than cache_ttl
FreshEntry ==
    /\ _get_cache_key(input.url) \in DOMAIN input.cache
    /\ input.time - input.cache[_get_cache_key(input.url)].timestamp < self.cache_ttl

\* the entries of the other URLs are the ones the call started with
OthersKept ==
    \A k \in (DOMAIN input.cache \cup DOMAIN self.cache) \ {_get_cache_key(input.url)} :
        /\ k \in DOMAIN input.cache
        /\ k \in DOMAIN self.cache
        /\ self.cache[k] = input.cache[k]

\* C16: over any sequence of fetch_json calls, a call is answered from the
\* cache, without an HTTP request, exactly when the cache holds an entry for
\* the URL whose age is strictly less than cache_ttl; an expired entry is
\* deleted and the URL is fetched again; an entry is stored only after a
\* successful request whose body is a JSON dictionary; a failed fetch
\* returns None and neither adds nor refreshes an entry.
C16_CacheHitOnlyWhenFresh ==
    call = "fetch_json" =>
        /\ result.requested <=> ~FreshEntry
        /\ OthersKept
        /\ FreshEntry =>
              /\ result.returned = input.cache[_get_cache_key(input.url)].data
              /\ self.cache = input.cache
        /\ (~FreshEntry /\ input.response.kind = "dict") =>
              /\ result.returned = input.response.data
              /\ self.cache[_get_cache_key(input.url)] =
                    [data |-> input.response.data, timestamp |-> input.time]
        /\ (~FreshEntry /\ input.response.kind # "dict") =>
              /\ result.returned = None
              /\ _get_cache_key(input.url) \notin DOMAIN self.cache

\* C16 witness: a call found an entry exactly cache_ttl old, dropped it and
\* fetched the URL again, while the entry of the other URL stayed
C16_Witness ==
    /\ call = "fetch_json"
    /\ self.cache_ttl > 0
    /\ _get_cache_key(input.url) \in DOMAIN input.cache
    /\ input.time - input.cache[_get_cache_key(input.url)].timestamp = self.cache_ttl
    /\ result.requested
    /\ input.response.kind = "dict"
    /\ input.response.data # input.cache[_get_cache_key(input.url)].data
    /\ Cardinality(DOMAIN self.cache) = 2

====
